---- MODULE Spec2Model ----
\* Model of the study-plan-generator frontend: the multi-step quiz wizard
\* (components/MulitStepForm.tsx) and the three variants of the single-page
\* view controller (App.tsx with date picker, the plan page without date,
\* the knowledge-graph page) together with the fetch wrappers they call.
\*
\* React commits the state updates of a click/change handler before the next
\* event is dispatched, so a handler always runs against the state it was
\* rendered from; a disabled <button> receives no click events.
EXTENDS Naturals, Sequences, FiniteSets

\* ---------------------------------------------------------------- bounds

\* Cap on the number of submitForm calls recorded in one run.
MaxSubmits == 2
\* Cap on the number of concurrently pending invocations of one handler.
MaxInFlight == 2

\* ------------------------------------------------------- wizard: constants

questions ==
  << [text |-> "Frage 1: Welche IDE bevorzugst du?",
      options |-> <<"VSCode", "IntelliJ", "Sublime Text">>],
     [text |-> "Frage 2: Frontend, Backend, Fullstack?",
      options |-> <<"Frontend", "Backend", "Fullstack">>],
     [text |-> "Frage 3: Programmiersprache",
      options |-> <<"JavaScript", "Python", "Java">>],
     [text |-> "Frage 4: Testing Framework?",
      options |-> <<"Jest", "Mocha", "Cypress">>],
     [text |-> "Frage 5: CI?",
      options |-> <<"Jenkins", "GitHub Actions", "GitLab CI">>] >>

\* questions.length
N == Len(questions)

\* The option strings of question i (0-based, as in the source).
OptionsOf(i) == { questions[i + 1].options[k] :
                    k \in 1 .. Len(questions[i + 1].options) }

\* ---------------------------------------------------------------- state

VARIABLES
  \* wizard
  currentStep,      \* useState(0)
  answers,          \* useState(Array(questions.length).fill("")), 1-based here
  submitCalls,      \* arguments of the submitForm calls made so far, in order
  pendingSubmits,   \* handleNext invocations suspended at `await submitForm`
  alerts,           \* answers shown by alert(...) after a resolved submission
  \* page
  variant,          \* which App is mounted: "date" | "plan" | "graph"
  file,             \* useState<File | null>(null)
  studyMaterial,    \* useState("")   (`text` on the graph page)
  studyPlan,        \* useState("")   (`graphText` on the graph page)
  loading,          \* useState(false)
  planLoading,      \* useState(false) (`graphLoading` on the graph page)
  selectedDate,     \* useState<Date | undefined>(undefined)
  uploadReqs,       \* handleUpload invocations suspended at their await
  planReqs,         \* handleCreatePlan/-Graph invocations suspended at await
  uploadDone,       \* record of the last finished handleUpload invocation
  planDone,         \* record of the last finished plan/graph invocation
  view              \* upload side of the page state machine

wizardVars == << currentStep, answers, submitCalls, pendingSubmits, alerts >>
appVars == << variant, file, studyMaterial, studyPlan, loading, planLoading,
              selectedDate, uploadReqs, planReqs, uploadDone, planDone, view >>
vars == << wizardVars, appVars >>

\* --------------------------------------------------------- wizard: actions

\* Array.prototype.join(", ")
RECURSIVE join(_)
join(a) == IF Len(a) = 0 THEN <<>>
           ELSE IF Len(a) = 1 THEN << a[1] >>
           ELSE << a[1], ", " >> \o join(Tail(a))

handleOptionSelectWrongIndex(option) ==
  /\ answers' = [answers EXCEPT ![1] = option]
  /\ UNCHANGED << currentStep, submitCalls, pendingSubmits, alerts >>

\* const newAnswers = [...answers]; newAnswers[currentStep] = option;
handleOptionSelect(option) ==
  /\ answers' = [answers EXCEPT ![currentStep + 1] = option]
  /\ UNCHANGED << currentStep, submitCalls, pendingSubmits, alerts >>

handleNextSubmitsTwice ==
  IF currentStep < N - 1
    THEN /\ currentStep' = currentStep + 1
         /\ UNCHANGED << answers, submitCalls, pendingSubmits, alerts >>
    ELSE /\ submitCalls' = submitCalls \o << answers, answers >>
         /\ pendingSubmits' = Append(pendingSubmits, answers)
         /\ UNCHANGED << currentStep, answers, alerts >>

handleNextAlwaysAdvances ==
  IF currentStep < N
    THEN /\ currentStep' = currentStep + 1
         /\ UNCHANGED << answers, submitCalls, pendingSubmits, alerts >>
    ELSE /\ submitCalls' = Append(submitCalls, answers)
         /\ pendingSubmits' = Append(pendingSubmits, answers)
         /\ UNCHANGED << currentStep, answers, alerts >>

\* handleNext up to its await: advance, or call submitForm(answers) and suspend.
handleNext ==
  IF currentStep < N - 1
    THEN /\ currentStep' = currentStep + 1
         /\ UNCHANGED << answers, submitCalls, pendingSubmits, alerts >>
    ELSE /\ submitCalls' = Append(submitCalls, answers)
         /\ pendingSubmits' = Append(pendingSubmits, answers)
         /\ UNCHANGED << currentStep, answers, alerts >>

ConfirmDisabledNever == FALSE

\* disabled={!answers[currentStep]}
ConfirmDisabled == answers[currentStep + 1] = ""

\* A click on one of the option buttons of the current question.
ClickOption ==
  /\ \E option \in OptionsOf(currentStep) : handleOptionSelect(option)
  /\ UNCHANGED appVars

\* A click on the "Weiter" / "Abschliessen" button.
ClickConfirm ==
  /\ ~ConfirmDisabled
  /\ currentStep < N - 1 \/ Len(submitCalls) < MaxSubmits
  /\ handleNext
  /\ UNCHANGED appVars

\* submitForm resolved: console.log(res); alert(... + answers.join(", ")).
SubmitResolved ==
  /\ Len(pendingSubmits) > 0
  /\ \E k \in 1 .. Len(pendingSubmits) :
       /\ alerts' = Append(alerts, join(pendingSubmits[k]))
       /\ pendingSubmits' = SubSeq(pendingSubmits, 1, k - 1)
                              \o SubSeq(pendingSubmits, k + 1, Len(pendingSubmits))
  /\ UNCHANGED << currentStep, answers, submitCalls >>
  /\ UNCHANGED appVars

\* submitForm rejected: handleNext has no catch, nothing is shown.
SubmitRejected ==
  /\ Len(pendingSubmits) > 0
  /\ \E k \in 1 .. Len(pendingSubmits) :
       pendingSubmits' = SubSeq(pendingSubmits, 1, k - 1)
                           \o SubSeq(pendingSubmits, k + 1, Len(pendingSubmits))
  /\ UNCHANGED << currentStep, answers, submitCalls, alerts >>
  /\ UNCHANGED appVars

WizardInit ==
  /\ currentStep = 0
  /\ answers = [i \in 1 .. N |-> ""]
  /\ submitCalls = <<>>
  /\ pendingSubmits = <<>>
  /\ alerts = <<>>

\* ----------------------------------------------------------- page: values

NoFile == "null"
Files == { "a.pdf", "b.pdf" }

Undefined == "undefined"
Dates == { "2026-01-15" }

Variants == { "date", "plan", "graph" }

\* What the textarea of the date page lets the user type.
TypedTexts == { "", "Notizen" }

\* What the server can do with a request: the connection fails, or it answers
\* with a status code and a body.
Statuses == { 200, 500 }
Bodies == { "{\"text\":\"Kapitel 1\"}", "{\"overview\":\"...\",\"sessions\":[]}",
            "{}", "{\"detail\":\"Internal Server Error\"}", "null",
            "<html>Bad Gateway</html>", "{\"text\":" }
NetworkError == [net |-> TRUE, status |-> 0, body |-> ""]
Outcomes == { NetworkError } \cup
            { [net |-> FALSE, status |-> st, body |-> b] :
                st \in Statuses, b \in Bodies }

\* JavaScript values held by the page: strings and parsed JSON objects.
Str(s) == [t |-> "string", s |-> s, shape |-> ""]
Obj(shape, text) == [t |-> "object", s |-> text, shape |-> shape]
Null == [t |-> "null", s |-> Undefined, shape |-> ""]

\* Response.json(): the parsed body, or a rejection on a body that is not JSON.
json(body) ==
  CASE body = "{\"text\":\"Kapitel 1\"}" ->
         [rejected |-> FALSE, val |-> Obj("text", "Kapitel 1")]
    [] body = "{\"overview\":\"...\",\"sessions\":[]}" ->
         [rejected |-> FALSE, val |-> Obj("plan", Undefined)]
    [] body = "{}" ->
         [rejected |-> FALSE, val |-> Obj("empty", Undefined)]
    [] body = "{\"detail\":\"Internal Server Error\"}" ->
         [rejected |-> FALSE, val |-> Obj("detail", Undefined)]
    [] body = "null" ->
         [rejected |-> FALSE, val |-> Null]
    [] OTHER ->
         [rejected |-> TRUE, val |-> Null]

\* const res = await fetch(...); return res.json();
\* fetch rejects only on a network failure; the status is never looked at.
extractStudyMaterial(o) ==
  IF o.net THEN [rejected |-> TRUE, val |-> Null] ELSE json(o.body)

createStudyPlan(o) ==
  IF o.net THEN [rejected |-> TRUE, val |-> Null] ELSE json(o.body)

createKnowledgeGraph(o) ==
  IF o.net THEN [rejected |-> TRUE, val |-> Null] ELSE json(o.body)

\* How a server outcome counts as a failure of the request.
FailureKind(o) ==
  IF o.net THEN "network"
  ELSE IF ~(o.status \in 200 .. 299) THEN "non2xx"
  ELSE IF json(o.body).rejected THEN "malformed"
  ELSE "none"

ExtractFallback == "Fehler beim Extrahieren."
ExtractMissing == "Kein Text zurückgegeben."

PlanFallback ==
  IF variant = "date" THEN "Fehler beim Erstellen des Study Plans."
  ELSE "Fehler beim Erstellen des Knowledge Graphs."

PlanMissing ==
  IF variant = "date" THEN "Kein Study Plan zurückgegeben."
  ELSE "Kein Graph-Text zurückgegeben."

\* --------------------------------------------------------- page: handlers

\* Removal of the k-th element of a sequence.
RemoveAt(q, k) == SubSeq(q, 1, k - 1) \o SubSeq(q, k + 1, Len(q))

\* const handleDateUpload = (date) => { setSelectedDate(date); }
handleDateUpload(date) ==
  /\ selectedDate' = date
  /\ UNCHANGED << variant, file, studyMaterial, studyPlan, loading, planLoading,
                  uploadReqs, planReqs, uploadDone, planDone, view >>

\* if (e.target.files && e.target.files[0]) { setFile(...);
\*   setStudyMaterial("")  -- only on the date page }
handleFileChange(f) ==
  /\ IF f # NoFile
       THEN /\ file' = f
            /\ studyMaterial' = IF variant = "date" THEN "" ELSE studyMaterial
       ELSE UNCHANGED << file, studyMaterial >>
  /\ UNCHANGED << variant, studyPlan, loading, planLoading, selectedDate,
                  uploadReqs, planReqs, uploadDone, planDone, view >>

\* <textarea onChange={(e) => setStudyMaterial(e.target.value)}> (date page;
\* the textarea of the other two pages is readOnly)
handleTextChange(value) ==
  /\ variant = "date"
  /\ studyMaterial' = value
  /\ UNCHANGED << variant, file, studyPlan, loading, planLoading, selectedDate,
                  uploadReqs, planReqs, uploadDone, planDone, view >>

\* handleUpload up to its await.
handleUpload ==
  IF file = NoFile
    THEN UNCHANGED appVars
    ELSE /\ loading' = TRUE
         /\ studyMaterial' = ""
         /\ uploadReqs' = Append(uploadReqs, [file |-> file, writes |-> << "" >>])
         /\ view' = "uploading"
         /\ UNCHANGED << variant, file, studyPlan, planLoading, selectedDate,
                         planReqs, uploadDone, planDone >>

\* try { const res = await extractStudyMaterial(formData);
\*       setStudyMaterial(res.text ?? "Kein Text zurueckgegeben."); }
\* catch { setStudyMaterial("Fehler beim Extrahieren."); }
\* r is the settled promise; reading .text of null throws inside the try.
uploadTryCatch(r) ==
  IF r.rejected \/ r.val.t = "null"
    THEN [caught |-> TRUE, writes |-> << ExtractFallback >>]
    ELSE [caught |-> FALSE,
          writes |-> << IF r.val.s = Undefined THEN ExtractMissing ELSE r.val.s >>]

\* handleUpload after its await: try/catch, then finally { setLoading(false) }.
UploadSettled ==
  /\ Len(uploadReqs) > 0
  /\ \E k \in 1 .. Len(uploadReqs), o \in Outcomes :
       LET r == extractStudyMaterial(o)
           c == uploadTryCatch(r)
           w == uploadReqs[k].writes \o c.writes
       IN /\ studyMaterial' = IF Len(c.writes) > 0 THEN c.writes[Len(c.writes)]
                                                  ELSE studyMaterial
          /\ loading' = FALSE
          /\ uploadReqs' = RemoveAt(uploadReqs, k)
          /\ uploadDone' = [outcome |-> IF r.rejected THEN "rejected" ELSE "resolved",
                            failure |-> FailureKind(o),
                            caught |-> c.caught,
                            writes |-> w]
          /\ view' = IF c.caught THEN "upload-failed" ELSE "extracted"
  /\ UNCHANGED << variant, file, studyPlan, planLoading, selectedDate,
                  planReqs, planDone >>
  /\ UNCHANGED wizardVars

handleCreatePlanSendsBlank ==
  /\ planLoading' = TRUE
  /\ studyPlan' = Str("")
  /\ planReqs' = Append(planReqs,
                   [material |-> "", date |-> Undefined,
                    from |-> view, writes |-> << Str("") >>])
  /\ UNCHANGED << variant, file, studyMaterial, loading, selectedDate,
                  uploadReqs, uploadDone, planDone, view >>

\* handleCreatePlan / handleCreateGraph up to the await.
handleCreatePlan ==
  IF studyMaterial = "" \/ (variant = "date" /\ selectedDate = Undefined)
    THEN UNCHANGED appVars
    ELSE /\ planLoading' = TRUE
         /\ studyPlan' = Str("")
         /\ planReqs' = Append(planReqs,
                          [material |-> studyMaterial,
                           date |-> IF variant = "date" THEN selectedDate
                                                        ELSE Undefined,
                           from |-> view,
                           writes |-> << Str("") >>])
         /\ UNCHANGED << variant, file, studyMaterial, loading, selectedDate,
                         uploadReqs, uploadDone, planDone, view >>

planTryCatchWritesBoth(r) ==
  IF r.rejected
    THEN [caught |-> TRUE, writes |-> << Str(PlanMissing), Str(PlanFallback) >>]
  ELSE IF variant = "graph"
    THEN IF r.val.t = "null"
           THEN [caught |-> TRUE, writes |-> << Str(PlanFallback) >>]
           ELSE [caught |-> FALSE,
                 writes |-> << Str(IF r.val.s = Undefined THEN PlanMissing
                                                          ELSE r.val.s) >>]
    ELSE [caught |-> FALSE,
          writes |-> << IF r.val.t = "null" THEN Str(PlanMissing) ELSE r.val >>]

\* plan pages:  try { const res = await createStudyPlan(...);
\*                     setStudyPlan(res ?? "Kein ... zurueckgegeben."); }
\* graph page:  try { const res = await createKnowledgeGraph(text);
\*                     setGraphText(res.text ?? "Kein Graph-Text ..."); }
\* both:        catch { set...("Fehler beim Erstellen des ..."); }
planTryCatch(r) ==
  IF r.rejected
    THEN [caught |-> TRUE, writes |-> << Str(PlanFallback) >>]
  ELSE IF variant = "graph"
    THEN IF r.val.t = "null"
           THEN [caught |-> TRUE, writes |-> << Str(PlanFallback) >>]
           ELSE [caught |-> FALSE,
                 writes |-> << Str(IF r.val.s = Undefined THEN PlanMissing
                                                          ELSE r.val.s) >>]
    ELSE [caught |-> FALSE,
          writes |-> << IF r.val.t = "null" THEN Str(PlanMissing) ELSE r.val >>]

\* handleCreatePlan / handleCreateGraph after the await:
\* try/catch, then finally { setPlanLoading(false) }.
PlanSettled ==
  /\ Len(planReqs) > 0
  /\ \E k \in 1 .. Len(planReqs), o \in Outcomes :
       LET r == IF variant = "graph" THEN createKnowledgeGraph(o)
                                     ELSE createStudyPlan(o)
           c == planTryCatch(r)
           w == planReqs[k].writes \o c.writes
       IN /\ studyPlan' = c.writes[Len(c.writes)]
          /\ planLoading' = FALSE
          /\ planReqs' = RemoveAt(planReqs, k)
          /\ planDone' = [outcome |-> IF r.rejected THEN "rejected" ELSE "resolved",
                          failure |-> FailureKind(o),
                          caught |-> c.caught,
                          writes |-> w]
  /\ UNCHANGED << variant, file, studyMaterial, loading, selectedDate,
                  uploadReqs, uploadDone, view >>
  /\ UNCHANGED wizardVars

UploadDisabledIgnoresLoading == file = NoFile

\* disabled={!file || loading}
UploadDisabled == file = NoFile \/ loading

PlanDisabledIgnoresLoading ==
  studyMaterial = "" \/ (variant = "date" /\ selectedDate = Undefined)

\* disabled={!studyMaterial || planLoading}            (plan and graph page)
\* disabled={!studyMaterial || planLoading || !selectedDate}   (date page)
PlanDisabled ==
  \/ studyMaterial = ""
  \/ planLoading
  \/ (variant = "date" /\ selectedDate = Undefined)

\* ----------------------------------------------------------- page: events

\* <Calendar25 onSelect={(date) => handleDateUpload(date)} /> (date page)
SelectDate ==
  /\ variant = "date"
  /\ \E d \in Dates \cup { Undefined } : handleDateUpload(d)
  /\ UNCHANGED wizardVars

\* The file dialog closes with a file, or cancelled with none.
ChangeFile ==
  /\ \E f \in Files \cup { NoFile } : handleFileChange(f)
  /\ UNCHANGED wizardVars

TypeText ==
  /\ \E value \in TypedTexts : handleTextChange(value)
  /\ UNCHANGED wizardVars

ClickUpload ==
  /\ ~UploadDisabled
  /\ Len(uploadReqs) < MaxInFlight
  /\ handleUpload
  /\ UNCHANGED wizardVars

ClickPlan ==
  /\ ~PlanDisabled
  /\ Len(planReqs) < MaxInFlight
  /\ handleCreatePlan
  /\ UNCHANGED wizardVars

AppInit ==
  /\ variant \in Variants
  /\ file = NoFile
  /\ studyMaterial = ""
  /\ studyPlan = Str("")
  /\ loading = FALSE
  /\ planLoading = FALSE
  /\ selectedDate = Undefined
  /\ uploadReqs = << >>
  /\ planReqs = << >>
  /\ uploadDone = [outcome |-> "none", failure |-> "none", caught |-> FALSE,
                   writes |-> << >>]
  /\ planDone = [outcome |-> "none", failure |-> "none", caught |-> FALSE,
                 writes |-> << >>]
  /\ view = "idle"

\* ------------------------------------------------------ specifications

Init == WizardInit /\ AppInit

WizardNext == ClickOption \/ ClickConfirm \/ SubmitResolved \/ SubmitRejected

AppNext == SelectDate \/ ChangeFile \/ TypeText \/ ClickUpload \/ ClickPlan
             \/ UploadSettled \/ PlanSettled

Next == WizardNext \/ AppNext

\* The wizard alone, the page alone, and both mounted together.
WizardSpec == Init /\ [][WizardNext]_vars
AppSpec == Init /\ [][AppNext]_vars
Spec == Init /\ [][Next]_vars

\* ------------------------------------------------------------ properties

\* Every entry of a submitted array is an option of its own question.
InQuestionOrder(a) ==
  /\ Len(a) = N
  /\ \A i \in 0 .. N - 1 : a[i + 1] \in OptionsOf(i)

\* C1: a confirmation on the last question makes exactly one submitForm call,
\* whose argument is the whole answers array with the answer to question i at
\* index i; no other step of the wizard calls submitForm.
C1_OneSubmitPerFinalConfirm ==
  [][ /\ (ClickConfirm /\ currentStep = N - 1)
          => /\ submitCalls' = Append(submitCalls, answers)
             /\ InQuestionOrder(submitCalls'[Len(submitCalls')])
      /\ (submitCalls' # submitCalls) => (ClickConfirm /\ currentStep = N - 1)
    ]_vars

C1_Witness ==
  /\ Len(submitCalls) = 2
  /\ submitCalls[1] # submitCalls[2]

\* C2: whatever the kind of failure of an extraction or plan request (network
\* error, non-2xx status, malformed JSON), the invocation leaves the fallback
\* string in studyMaterial resp. studyPlan.
C2_FailuresCollapse ==
  /\ uploadDone.failure # "none"
       => uploadDone.writes[Len(uploadDone.writes)] = ExtractFallback
  /\ planDone.failure # "none"
       => planDone.writes[Len(planDone.writes)] = Str(PlanFallback)

\* C3: an invocation whose API promise rejected assigned its text state the
\* initial "" and then the fallback string, once, and nothing else; the
\* fallback is the value the state holds when the invocation ends.
C3_FallbackOnceOnRejection ==
  /\ [](/\ uploadDone.outcome = "rejected"
             => uploadDone.writes = << "", ExtractFallback >>
        /\ planDone.outcome = "rejected"
             => planDone.writes = << Str(""), Str(PlanFallback) >>)
  /\ [][ /\ (Len(uploadReqs') < Len(uploadReqs) /\ uploadDone'.outcome = "rejected")
             => studyMaterial' = ExtractFallback
         /\ (Len(planReqs') < Len(planReqs) /\ planDone'.outcome = "rejected")
             => studyPlan' = Str(PlanFallback)
       ]_vars

C3_Witness ==
  /\ uploadDone.outcome = "rejected"
  /\ planDone.outcome = "rejected"
  /\ studyPlan = Str(PlanFallback)

\* C4: the upload button takes a click exactly when a file is selected and
\* loading is false, and no upload request is issued in any other state.
C4_UploadGate ==
  /\ []((ENABLED ClickUpload) <=> (file # NoFile /\ ~loading))
  /\ [][ Len(uploadReqs') > Len(uploadReqs) => (file # NoFile /\ ~loading) ]_vars

C4_Witness ==
  /\ loading
  /\ file = "b.pdf"
  /\ Len(uploadReqs) = 1
  /\ uploadReqs[1].file = "a.pdf"

\* C5: the plan button takes no click while the study material is empty or,
\* on the date page, while no date is selected; no plan request is ever sent
\* with empty study material or, on the date page, without a date.
C5_PlanGate ==
  /\ []((studyMaterial = "" \/ (variant = "date" /\ selectedDate = Undefined))
          => ~ENABLED ClickPlan)
  /\ [](\A k \in 1 .. Len(planReqs) :
          /\ planReqs[k].material # ""
          /\ variant = "date" => planReqs[k].date # Undefined)
  /\ [][ Len(planReqs') > Len(planReqs)
           => /\ studyMaterial # ""
              /\ variant = "date" => selectedDate # Undefined ]_vars

C5_Witness ==
  /\ variant = "date"
  /\ Len(planReqs) = 1
  /\ planReqs[1].date \in Dates
  /\ planReqs[1].material = "Notizen"

\* C6: a click on an option at step i sets answers[i] to that option and
\* leaves every other index, the length of the array and currentStep alone.
C6_OptionSelectFrame ==
  [][ ClickOption =>
        /\ \E option \in OptionsOf(currentStep) :
             answers' = [j \in 1 .. N |->
                           IF j = currentStep + 1 THEN option ELSE answers[j]]
        /\ Len(answers') = Len(answers)
        /\ currentStep' = currentStep
    ]_vars

C6_Witness ==
  /\ currentStep = 2
  /\ answers[1] = "IntelliJ"
  /\ answers[3] = "Python"
  /\ answers[4] = ""

\* C7: on the plan page and the graph page (the pages whose text area is
\* read-only) a plan/graph request is started only from the extracted state,
\* never from idle, uploading or upload-failed.
C7_PlanOnlyFromExtracted ==
  variant # "date"
    => \A k \in 1 .. Len(planReqs) : planReqs[k].from = "extracted"

\* C8: at most one upload and at most one plan/graph request is in flight,
\* and each loading flag is true exactly while its request is in flight.
C8_NoOverlap ==
  /\ Len(uploadReqs) <= 1
  /\ Len(planReqs) <= 1
  /\ loading <=> (Len(uploadReqs) = 1)
  /\ planLoading <=> (Len(planReqs) = 1)

C8_Witness ==
  /\ loading
  /\ planLoading
  /\ Len(uploadReqs) = 1
  /\ Len(planReqs) = 1

\* C9: currentStep starts at 0, stays within 0..N-1, never decreases, grows
\* by exactly 1 on a confirmation before the last question and by nothing on
\* any other step; a confirmation on the last question submits and leaves
\* currentStep at N-1.
C9_LinearWizard ==
  /\ currentStep = 0
  /\ [](currentStep \in 0 .. N - 1)
  /\ [][ /\ currentStep' >= currentStep
         /\ (ClickConfirm /\ currentStep < N - 1) => currentStep' = currentStep + 1
         /\ (ClickConfirm /\ currentStep = N - 1)
              => /\ currentStep' = N - 1
                 /\ Len(submitCalls') = Len(submitCalls) + 1
         /\ ~ClickConfirm => currentStep' = currentStep
       ]_vars

C9_Witness ==
  /\ currentStep = N - 1
  /\ Len(submitCalls) = 1
  /\ Len(alerts) = 1

\* C10: every index below currentStep holds an option of its own question,
\* every index above it is still "", and every array passed to submitForm has
\* length N with each entry an option of its own question.
C10_AnswersFilledUpToStep ==
  /\ \A j \in 0 .. N - 1 :
       /\ j < currentStep => answers[j + 1] \in OptionsOf(j)
       /\ j > currentStep => answers[j + 1] = ""
  /\ \A c \in 1 .. Len(submitCalls) : InQuestionOrder(submitCalls[c])

C10_Witness ==
  /\ currentStep = 3
  /\ answers[4] = "Mocha"
  /\ answers[5] = ""

====
